---- MODULE Spec2Model ----
(***************************************************************************)
(* Shift-exchange server (server/main.py): offers and their wants in the   *)
(* relational store, create_offer with its synchronous match attempt       *)
(* (try_match_and_notify), delete_offer, the expiry sweeper                *)
(* (cleanup_expired) and the wall clock.                                   *)
(*                                                                         *)
(* Every SQL statement is one atomic step against the committed store      *)
(* (PostgreSQL's default READ COMMITTED isolation: each statement sees the *)
(* rows committed before it starts).  A write that is committed by the     *)
(* very next line of the code is one step, taken at its commit: an UPDATE  *)
(* that waited for another transaction's row lock re-reads the row after   *)
(* that commit, and both UPDATEs of the code select their rows by id only. *)
(*                                                                         *)
(* Requests are well formed (dates and hours parse).  A request's wants    *)
(* are a set: the code inserts one row per list item and only ever tests   *)
(* membership.                                                             *)
(*                                                                         *)
(* Time is counted in whole hours since 00:00 UTC of day 0.  Slots lie on  *)
(* the hour, so for a slot instant c and a clock reading t (which has      *)
(* microseconds in the code) c <= t holds exactly when c <= floor(t): the  *)
(* hour-granular clock decides every comparison of the code as the real    *)
(* clock does.                                                             *)
(***************************************************************************)
EXTENDS Integers, FiniteSets, Sequences, Bags, TLC

\* ------------------------------------------------------------------ bounds
MaxOffers == 2          \* offers ever inserted under Spec (ids 1..MaxOffers)
MaxRaceOffers == 3      \* offers ever inserted under SpecRace
MaxNow == 6             \* the clock stops advancing here
MaxRejects == 1         \* rejected create_offer requests that are recorded
MaxSweepOffers == 3     \* offers ever inserted under SpecSweep
MaxLiveOffers == 2      \* offers ever inserted under SpecSweepLive
MaxFails == 1           \* sweeper ticks that raise
MaxApiOffers == 1       \* offers ever inserted under SpecApi

\* --------------------------------------------------------- program constants
TZ_OFFSET == 3

Procs == {1, 2}                      \* request workers running create_offer
Users == {1, 2}                      \* tg ids, profiles filled in
Depts == {"VIP CALLS", "VIP LITE CHAT"}     \* keys of DEPT_SLOTS used here
Dates == {0}                         \* have_date / want_date, as day numbers
HourStrs == {"08:00", "09:00"}       \* have_hour / want_hour texts
Slots == Dates \X HourStrs           \* (date, hour) pairs

NoRow == [id |-> 0]                  \* fetchone() returned None
NULL == "<NULL>"                     \* a column that holds NULL, an absent field

VARIABLES
    now,        \* datetime.utcnow(), whole hours
    offers,     \* table offers: id -> [user_tg, department, have, status]
    wants,      \* table offer_wants: offer id -> set of (want_date, want_hour)
    nextId,     \* the SERIAL sequence of offers.id
    pc,         \* per worker: where its create_offer request stands
    loc,        \* per worker: offer_id, A, A_wants, Bs, B, B_wants of try_match_and_notify;
                \* failed: the gateway raised; seen (history): the offers already
                \* matched when the match attempt began
    sweep,      \* cleanup_expired: [pc, to_expire]; fails: ticks that raised;
                \* history: at, took (clock and rows of the last committed
                \* UPDATE), missed (offers that were due at a tick that raised)
    outbox,     \* bag of messages handed to the gateway (cli.post returned)
    responses,  \* bag of the answers given to create_offer requests
    matchLog,   \* history: the UPDATE ... 'matched' statements that committed
    overlap,    \* history: two create_offer requests were in flight at once
    users,      \* table users: tg_id -> [full_name, department]
    reply       \* the last answer given by an endpoint other than a stored offer's

vars == <<now, offers, wants, nextId, pc, loc, sweep, outbox, responses,
          matchLog, overlap, users, reply>>

\* ------------------------------------------------------------- time, slots

\* int(hour_hh.split(":")[0])
HourOf(hh) == CASE hh = "08:00" -> 8
                [] hh = "09:00" -> 9
                [] OTHER -> 0

\* datetime(y, m, d, hh, 0): the slot as a wall-clock reading, in hours
SlotInstant(s) == s[1] * 24 + HourOf(s[2])

\* variant of IsFuture: the slot equal to now passes (candidate < now_utc)
IsFutureNonStrict(s, t) == ~(SlotInstant(s) - TZ_OFFSET < t)

\* validate_future, lines 101-104: candidate = datetime(y, m, d, hh, 0) - 3h is
\* rejected when candidate <= now_utc
IsFuture(s, t) == ~(SlotInstant(s) - TZ_OFFSET <= t)

\* the clock starts one hour before the earliest slot
ClockStart == SlotInstant(<<0, "08:00">>) - TZ_OFFSET - 1

\* variant of LocalNow: the sweeper compares against UTC
LocalNowUtc(t) == t

\* as_local_now(): utcnow + 3h
LocalNow(t) == t + TZ_OFFSET

\* variant of IsExpired: dt_local < now_local
IsExpiredStrict(s, t) == SlotInstant(s) < LocalNow(t)

\* cleanup_expired: dt_local <= now_local.replace(tzinfo=None)
IsExpired(s, t) == SlotInstant(s) <= LocalNow(t)

\* check_department
KnownDept(d) == d \in Depts

\* not row[...]: None and the empty text are both false
Falsy(v) == v = NULL \/ v = ""

\* variant of ProfileComplete: only the row's existence is required
ProfileRegistered(u) == u \in DOMAIN users

\* create_offer, lines 267-271: the caller's row in users exists and has
\* department and full_name set
ProfileComplete(u) ==
    /\ u \in DOMAIN users
    /\ ~Falsy(users[u].department)
    /\ ~Falsy(users[u].full_name)

\* create_offer, lines 158-163 and 267-279: the checks in the order they are
\* made.  The department is checked first, by OfferIn's validator while the
\* request body is decoded (answered 422, before the handler and its token
\* check run); the handler's own check_department (line 274) then always
\* passes.  ws is the set of the request's want items.
CreateOutcome(u, dept, have, ws, t) ==
    IF ~KnownDept(dept) THEN "UnknownDepartment"
    ELSE IF ~ProfileComplete(u) THEN "ProfileIncomplete"
    ELSE IF ~IsFuture(have, t) THEN "SlotInPast"
    ELSE IF ws = {} THEN "EmptyWantList"
    ELSE IF \E w \in ws : ~IsFuture(w, t) THEN "SlotInPast"
    ELSE "ok"

RejectCodes == {"ProfileIncomplete", "UnknownDepartment", "SlotInPast", "EmptyWantList"}

\* ---------------------------------------------------------- identity tokens
\* initData is taken as parse_qsl returns it: the list of its (key, value)
\* pairs in the order of the query text.  The digests are symbolic: equal
\* exactly when key and message are equal.

BOT_TOKEN == "bot-token"

\* hashlib.sha256(x).digest()
Sha256(x) == <<"sha256", x>>

\* line 23
SECRET_KEY == IF BOT_TOKEN # "" THEN Sha256(BOT_TOKEN) ELSE <<>>

\* hmac.new(key, msg, sha256).hexdigest()
Mac(key, msg) == <<"hmac-sha256", key, msg>>

\* the JSON texts of the user field used here
JsonAnn == "{id: 1, first_name: Ann}"
JsonTwo == "{id: 2}"
JsonCut == "{id: 1, first_na"

\* json.loads, line 126: the decoded object, or an exception
JsonLoads(text) ==
    CASE text = JsonAnn -> [ok |-> TRUE, value |-> [k \in {"id", "first_name"} |->
                                IF k = "id" THEN 1 ELSE "Ann"]]
      [] text = JsonTwo -> [ok |-> TRUE, value |-> [k \in {"id"} |-> 2]]
      [] OTHER -> [ok |-> FALSE]

\* the keys of initData in the order sorted() gives them
KeyRank(k) == CASE k = "auth_date" -> 1
                [] k = "hash" -> 2
                [] k = "query_id" -> 3
                [] k = "user" -> 4
                [] OTHER -> 5

\* line 114: dict(parse_qsl(...)): of two pairs with one key the later one stays
AsDict(q) ==
    [k \in {q[i][1] : i \in DOMAIN q} |->
        q[CHOOSE i \in DOMAIN q :
              q[i][1] = k /\ \A j \in DOMAIN q : q[j][1] = k => j <= i][2]]

RECURSIVE SortedKeys(_)
\* line 118: sorted(data.keys())
SortedKeys(ks) ==
    IF ks = {} THEN <<>>
    ELSE LET k == CHOOSE x \in ks : \A y \in ks : KeyRank(x) <= KeyRank(y)
         IN <<k>> \o SortedKeys(ks \ {k})

\* line 118: the lines k=v of data_check_string, in their order
DataCheckString(data) ==
    LET ks == SortedKeys(DOMAIN data) IN [i \in DOMAIN ks |-> <<ks[i], data[ks[i]]>>]

\* data.pop("hash")
Without(data, k) == [x \in DOMAIN data \ {k} |-> data[x]]

Unauthorized(detail) == [status |-> 401, detail |-> detail]

\* variant of HashMatches: the hash is not compared
HashIgnored(h, their_hash) == TRUE

\* line 120: h != their_hash
HashMatches(h, their_hash) == h = their_hash

\* check_init_data, lines 111-128
CheckInitData(init_data) ==
    IF BOT_TOKEN = "" THEN [status |-> 500, detail |-> "BOT_TOKEN is not set"]
    ELSE LET data == AsDict(init_data) IN
         IF "hash" \notin DOMAIN data THEN Unauthorized("missing hash")
         ELSE LET rest == Without(data, "hash")
                  h == Mac(SECRET_KEY, DataCheckString(rest))
              IN IF ~HashMatches(h, data["hash"]) THEN Unauthorized("bad hash")
                 ELSE IF "user" \notin DOMAIN rest \/ rest["user"] = ""
                      THEN Unauthorized("missing user")
                 ELSE IF ~JsonLoads(rest["user"]).ok THEN Unauthorized("bad user json")
                 ELSE [status |-> 200, user |-> JsonLoads(rest["user"]).value]

\* the pairs of a token without its hash: user and auth_date, each optional
Payload(user, auth_date) ==
    (IF user = NULL THEN <<>> ELSE << <<"user", user>> >>)
    \o (IF auth_date = NULL THEN <<>> ELSE << <<"auth_date", auth_date>> >>)

Payloads == {Payload(u, a) : u \in {NULL, "", JsonAnn, JsonTwo, JsonCut},
                             a \in {NULL, "1700000000"}}

\* a token: the payload with hash=... put after its first pair
WithHash(payload, h) ==
    IF payload = <<>> THEN << <<"hash", h>> >>
    ELSE <<Head(payload), <<"hash", h>> >> \o Tail(payload)

\* the client's signature over a payload with the key it holds
Sign(key, payload) == Mac(key, DataCheckString(AsDict(payload)))

\* every token: unsigned, signed with the server's key or with another key,
\* over its own payload or over another one
InitDatas ==
    Payloads
    \cup {WithHash(pl, Sign(k, signed)) :
             pl \in Payloads, signed \in Payloads,
             k \in {SECRET_KEY, Sha256("another-token")}}

\* the tokens the endpoints other than auth are called with
Tokens ==
    {<<>>,
     WithHash(Payload(JsonAnn, "1700000000"), Sign(SECRET_KEY, Payload(JsonAnn, "1700000000"))),
     WithHash(Payload(JsonTwo, "1700000000"), Sign(SECRET_KEY, Payload(JsonTwo, "1700000000"))),
     WithHash(Payload(JsonAnn, "1700000000"), Sign(SECRET_KEY, Payload(JsonTwo, "1700000000")))}

\* ------------------------------------------------------------------ helpers
Put(f, k, v) == [x \in DOMAIN f \cup {k} |-> IF x = k THEN v ELSE f[x]]
Drop(f, ks) == [x \in DOMAIN f \ ks |-> f[x]]
Count(bag, e) == IF e \in DOMAIN bag THEN bag[e] ELSE 0
\* an answer; failed: notify_match caught a gateway failure during the request
Answer(code, failed) == responses (+) SetToBag({[code |-> code, failed |-> failed]})
Rejected == BagCardinality(responses) - Count(responses, [code |-> "ok", failed |-> FALSE])
            - Count(responses, [code |-> "ok", failed |-> TRUE])
            - Count(responses, [code |-> "error500", failed |-> FALSE])
            - Count(responses, [code |-> "error500", failed |-> TRUE])

\* a row of offers as a cursor returns it
Row(id) == [id |-> id, user_tg |-> offers[id].user_tg,
            department |-> offers[id].department, have |-> offers[id].have]

Idle == [offer_id |-> 0, A |-> NoRow, A_wants |-> {}, Bs |-> {}, B |-> NoRow,
         B_wants |-> {}, failed |-> FALSE, seen |-> {}]

\* history: the offers some committed UPDATE has set to matched
EverMatched == {e.A.id : e \in {x \in matchLog : x.aWas # "gone"}}
               \cup {e.B.id : e \in {x \in matchLog : x.bWas # "gone"}}
StatusOf(id) == IF id \in DOMAIN offers THEN offers[id].status ELSE "gone"

InFlight(p) == pc[p] # "idle"

\* no endpoint has answered yet
NoReply == [endpoint |-> "none"]

\* the rows of users once every user of Users has saved a profile
Registered == [u \in Users |-> [full_name |-> "Ann", department |-> "VIP CALLS"]]

\* --------------------------------------------------------------------- Init

\* the store and the workers after startup (init_db), users aside
Fresh ==
    /\ now = ClockStart
    /\ offers = <<>>
    /\ wants = <<>>
    /\ nextId = 1
    /\ pc = [p \in Procs |-> "idle"]
    /\ loc = [p \in Procs |-> Idle]
    /\ sweep = [pc |-> "sleep", to_expire |-> {}, fails |-> 0,
                at |-> 0, took |-> {}, missed |-> {}]
    /\ outbox = EmptyBag
    /\ responses = EmptyBag
    /\ matchLog = {}
    /\ overlap = FALSE
    /\ reply = NoReply

\* both users have registered and saved their profiles
Init == Fresh /\ users = Registered

\* ------------------------------------------------------------- create_offer

\* create_offer, lines 261-292: checks, INSERT of the offer and its wants, commit.
\* A rejected request raises HTTPException (400) before any INSERT.
CreateOffer(p, u, dept, have, ws) ==
    /\ pc[p] = "idle"
    /\ LET outcome == CreateOutcome(u, dept, have, ws, now) IN
       IF outcome # "ok"
       THEN /\ Rejected < MaxRejects
            /\ responses' = Answer(outcome, FALSE)
            /\ UNCHANGED <<now, offers, wants, nextId, pc, loc, sweep, outbox,
                           matchLog, overlap, users, reply>>
       ELSE /\ offers' = Put(offers, nextId, [user_tg |-> u, department |-> dept,
                                              have |-> have, status |-> "active"])
            /\ wants' = Put(wants, nextId, ws)
            /\ nextId' = nextId + 1
            /\ pc' = [pc EXCEPT ![p] = "readA"]
            /\ loc' = [loc EXCEPT ![p] = [Idle EXCEPT !.offer_id = nextId]]
            /\ overlap' = (overlap \/ \E q \in Procs \ {p} : InFlight(q))
            /\ UNCHANGED <<now, sweep, outbox, responses, matchLog, users, reply>>

\* ----------------------------------------------------- try_match_and_notify

\* line 373: SELECT * FROM offers WHERE id=%s AND status='active'
SelectActive(id) == id \in DOMAIN offers /\ offers[id].status = "active"

\* lines 373-376: read A; return when it is gone or no longer active
ReadA(p) ==
    /\ pc[p] = "readA"
    /\ IF SelectActive(loc[p].offer_id)
       THEN /\ loc' = [loc EXCEPT ![p].A = Row(loc[p].offer_id), ![p].seen = EverMatched]
            /\ pc' = [pc EXCEPT ![p] = "readWants"]
       ELSE /\ loc' = [loc EXCEPT ![p].seen = EverMatched]
            /\ pc' = [pc EXCEPT ![p] = "respond"]
    /\ UNCHANGED <<now, offers, wants, nextId, sweep, outbox, responses,
                   matchLog, overlap, users, reply>>

\* lines 248, 377, 395: SELECT want_date, want_hour FROM offer_wants WHERE offer_id=%s
WantsOf(id) == IF id \in DOMAIN wants THEN wants[id] ELSE {}

\* lines 377-379: A_wants (X is A's have-slot, kept in the row A)
ReadAWants(p) ==
    /\ pc[p] = "readWants"
    /\ loc' = [loc EXCEPT ![p].A_wants = WantsOf(loc[p].A.id)]
    /\ pc' = [pc EXCEPT ![p] = "candidates"]
    /\ UNCHANGED <<now, offers, wants, nextId, sweep, outbox, responses,
                   matchLog, overlap, users, reply>>

\* variant of IsCandidate: the query without o.department=%s
IsCandidateAnyDept(o, A, A_wants) ==
    /\ o.status = "active"
    /\ o.have \in A_wants
    /\ o.user_tg # A.user_tg

\* variant of IsCandidate: the query without o.user_tg <> %s
IsCandidateAnyUser(o, A, A_wants) ==
    /\ o.status = "active"
    /\ o.department = A.department
    /\ o.have \in A_wants

\* variant of IsCandidate: the query without o.status='active'
IsCandidateAnyStatus(o, A, A_wants) ==
    /\ o.department = A.department
    /\ o.have \in A_wants
    /\ o.user_tg # A.user_tg

\* lines 382-388: the WHERE clause of the candidate query, for one row o
IsCandidate(o, A, A_wants) ==
    /\ o.status = "active"
    /\ o.department = A.department
    /\ o.have \in A_wants
    /\ o.user_tg # A.user_tg

\* lines 382-391: the candidates Bs.  An empty A_wants (A was deleted after it
\* was read) renders as IN (), which the server rejects: the exception leaves
\* try_match_and_notify and create_offer, and the request is answered 500.
SelectCandidates(p) ==
    /\ pc[p] = "candidates"
    /\ IF loc[p].A_wants = {}
       THEN /\ pc' = [pc EXCEPT ![p] = "idle"]
            /\ loc' = [loc EXCEPT ![p] = Idle]
            /\ responses' = Answer("error500", FALSE)
       ELSE LET found == {Row(id) : id \in {i \in DOMAIN offers :
                              IsCandidate(offers[i], loc[p].A, loc[p].A_wants)}} IN
            /\ loc' = [loc EXCEPT ![p].Bs = found]
            /\ pc' = [pc EXCEPT ![p] = IF found = {} THEN "respond" ELSE "loop"]
            /\ UNCHANGED responses
    /\ UNCHANGED <<now, offers, wants, nextId, sweep, outbox, matchLog, overlap, users, reply>>

\* variant of Mutual: B must want X and nothing else
MutualExact(A, B_wants) == B_wants = {A.have}

\* line 397: X in B_wants
Mutual(A, B_wants) == A.have \in B_wants

\* lines 394-397: the next B of the loop, in whatever order the store returned
\* the rows; read its wants and test X in B_wants
CheckCandidate(p) ==
    /\ pc[p] = "loop"
    /\ \E b \in loc[p].Bs :
         IF Mutual(loc[p].A, WantsOf(b.id))
         THEN /\ loc' = [loc EXCEPT ![p].B = b, ![p].B_wants = WantsOf(b.id)]
              /\ pc' = [pc EXCEPT ![p] = "update"]
         ELSE /\ loc' = [loc EXCEPT ![p].Bs = loc[p].Bs \ {b}]
              /\ pc' = [pc EXCEPT ![p] = IF loc[p].Bs = {b} THEN "respond" ELSE "loop"]
    /\ UNCHANGED <<now, offers, wants, nextId, sweep, outbox, responses,
                   matchLog, overlap, users, reply>>

\* line 399: the rows UPDATE offers SET status='matched' WHERE id IN (a, b) writes
MatchedRows(a, b) == {a, b} \cap DOMAIN offers

\* lines 399-400: the UPDATE and its commit
MarkMatched(p) ==
    /\ pc[p] = "update"
    /\ LET a == loc[p].A.id
           b == loc[p].B.id
       IN /\ offers' = [id \in DOMAIN offers |->
                           IF id \in MatchedRows(a, b)
                           THEN [offers[id] EXCEPT !.status = "matched"]
                           ELSE offers[id]]
          /\ matchLog' = matchLog \cup
                {[A |-> loc[p].A, B |-> loc[p].B,
                  A_wants |-> loc[p].A_wants, B_wants |-> loc[p].B_wants,
                  aWas |-> StatusOf(a), bWas |-> StatusOf(b)]}
    /\ pc' = [pc EXCEPT ![p] = "notify"]
    /\ UNCHANGED <<now, wants, nextId, loc, sweep, outbox, responses, overlap, users, reply>>

\* lines 412-423: textA / textB; own and peer name the two offers (history)
Message(mine, other) ==
    [chat_id |-> mine.user_tg, gives |-> mine.have, gets |-> other.have,
     contact |-> other.user_tg, own |-> mine.id, peer |-> other.id]

\* lines 424-429: the two posts; posted is how many returned before one raised
\* (2: none raised).  The exception is caught and printed.
Posted(A, B, posted) ==
    IF posted = 0 THEN EmptyBag
    ELSE IF posted = 1 THEN SetToBag({Message(A, B)})
    ELSE SetToBag({Message(A, B)}) (+) SetToBag({Message(B, A)})

\* variant of AfterNotify: no try/except around the posts
AfterNotifyRaises(posted) == IF posted < 2 THEN "raise" ELSE "respond"

\* line 428: except Exception: the failure stays inside notify_match
AfterNotify(posted) == "respond"

\* lines 401-402, 404-429: notify_match, then return
NotifyMatch(p, posted) ==
    /\ pc[p] = "notify"
    /\ outbox' = outbox (+) Posted(loc[p].A, loc[p].B, posted)
    /\ IF AfterNotify(posted) = "respond"
       THEN /\ pc' = [pc EXCEPT ![p] = "respond"]
            /\ loc' = [loc EXCEPT ![p].failed = (posted < 2)]
            /\ UNCHANGED responses
       ELSE /\ pc' = [pc EXCEPT ![p] = "idle"]
            /\ loc' = [loc EXCEPT ![p] = Idle]
            /\ responses' = Answer("error500", TRUE)
    /\ UNCHANGED <<now, offers, wants, nextId, sweep, matchLog, overlap, users, reply>>

\* create_offer, lines 296-298: SELECT the offer again and return it; a row that
\* is gone makes _row_to_offer_out raise, and the request is answered 500
Respond(p) ==
    /\ pc[p] = "respond"
    /\ responses' = Answer(IF loc[p].offer_id \in DOMAIN offers THEN "ok" ELSE "error500",
                            loc[p].failed)
    /\ pc' = [pc EXCEPT ![p] = "idle"]
    /\ loc' = [loc EXCEPT ![p] = Idle]
    /\ UNCHANGED <<now, offers, wants, nextId, sweep, outbox, matchLog, overlap, users, reply>>

\* ------------------------------------------------------------- delete_offer

\* lines 310-319: DELETE FROM offers WHERE id=%s AND user_tg=%s (offer_wants
\* rows go with it, ON DELETE CASCADE).  When no row matches the code raises
\* 404 and nothing changes.
DeleteOffer(u, id) ==
    /\ id \in DOMAIN offers
    /\ offers[id].user_tg = u
    /\ offers' = Drop(offers, {id})
    /\ wants' = Drop(wants, {id})
    /\ UNCHANGED <<now, nextId, pc, loc, sweep, outbox, responses, matchLog,
                   overlap, users, reply>>

\* ---------------------------------------------------------- cleanup_expired

\* variant of ToExpire: the SELECT without status='active'
ToExpireAnyStatus(t) == {id \in DOMAIN offers : IsExpired(offers[id].have, t)}

\* lines 435-445: the active offers whose have-slot is at or before now_local
ToExpire(t) == {id \in DOMAIN offers :
                  offers[id].status = "active" /\ IsExpired(offers[id].have, t)}

\* line 447: the rows UPDATE offers SET status='expired' WHERE id = ANY(ids) writes
ExpiredRows(ids) == ids \cap DOMAIN offers

\* lines 435-446: read the clock, SELECT the active offers, collect to_expire.
\* With nothing to expire the run ends here and changes nothing.
SweepSelect ==
    /\ sweep.pc = "sleep"
    /\ ToExpire(now) # {}
    /\ sweep' = [sweep EXCEPT !.pc = "expire", !.to_expire = ToExpire(now)]
    /\ UNCHANGED <<now, offers, wants, nextId, pc, loc, outbox, responses,
                   matchLog, overlap, users, reply>>

\* lines 447-448: the UPDATE and its commit; then the loop sleeps
SweepUpdate ==
    /\ sweep.pc = "expire"
    /\ offers' = [id \in DOMAIN offers |->
                     IF id \in ExpiredRows(sweep.to_expire)
                     THEN [offers[id] EXCEPT !.status = "expired"]
                     ELSE offers[id]]
    /\ sweep' = [sweep EXCEPT !.pc = "sleep", !.to_expire = {}, !.at = now,
                               !.took = ExpiredRows(sweep.to_expire)]
    /\ UNCHANGED <<now, wants, nextId, pc, loc, outbox, responses,
                   matchLog, overlap, users, reply>>

\* variant of AfterSweepFail: no try/except in the loop, the task ends
AfterSweepFailStops == "stopped"

\* _schedule_cleanup, lines 455-459: except Exception prints the error, the
\* loop sleeps and runs cleanup_expired again
AfterSweepFail == "sleep"

\* cleanup_expired raises (get_conn, the SELECT, the UPDATE or the commit
\* failed): leaving the with block rolls back, nothing is written
SweepFail ==
    /\ sweep.pc \in {"sleep", "expire"}
    /\ sweep.fails < MaxFails
    /\ sweep' = [sweep EXCEPT !.pc = AfterSweepFail, !.to_expire = {},
                               !.fails = sweep.fails + 1,
                               !.missed = sweep.missed \cup ToExpire(now)]
    /\ UNCHANGED <<now, offers, wants, nextId, pc, loc, outbox, responses,
                   matchLog, overlap, users, reply>>

\* ---------------------------------------------------------------- endpoints
\* The handlers with their token check and their answers.  An answer is
\* [endpoint, init, arg, status, body]: init is the initData the request
\* carried (none for the endpoints that take none), arg its other
\* parameters, body the set of rows returned.

Answered(endpoint, init, arg, status, body) ==
    [endpoint |-> endpoint, init |-> init, arg |-> arg, status |-> status,
     body |-> body]

NoArg == [none |-> TRUE]

\* d.get(k, default)
Get(d, k, default) == IF k \in DOMAIN d THEN d[k] ELSE default

\* line 203: ((first_name + " " + last_name).strip()) or None; the tokens used
\* here carry no last_name
FullFromTg(u) ==
    LET first == Get(u, "first_name", "")
        last == Get(u, "last_name", "")
    IN IF first = "" /\ last = "" THEN NULL
       ELSE IF last = "" THEN first
       ELSE IF first = "" THEN last
       ELSE <<first, " ", last>>

\* ProfileOut(**row), for a row of the table tbl
Profile(tbl, tg_id) ==
    [tg_id |-> tg_id, full_name |-> tbl[tg_id].full_name,
     department |-> tbl[tg_id].department]

\* auth, lines 198-218: insert the caller's row unless it is there
AuthTelegram(init) ==
    /\ LET who == CheckInitData(init) IN
       IF who.status # 200
       THEN /\ reply' = Answered("auth", init, NoArg, who.status, {})
            /\ UNCHANGED users
       ELSE LET tg_id == who.user["id"] IN
            /\ users' = IF tg_id \in DOMAIN users THEN users
                         ELSE Put(users, tg_id, [full_name |-> FullFromTg(who.user),
                                                 department |-> NULL])
            /\ reply' = Answered("auth", init, NoArg, 200, {Profile(users', tg_id)})
    /\ UNCHANGED <<now, offers, wants, nextId, pc, loc, sweep, outbox, responses,
                   matchLog, overlap>>

\* get_profile, lines 220-229
GetProfile(init) ==
    /\ LET who == CheckInitData(init)
           Ans(status, body) == Answered("get_profile", init, NoArg, status, body)
       IN reply' = IF who.status # 200 THEN Ans(who.status, {})
                   ELSE IF who.user["id"] \notin DOMAIN users THEN Ans(404, {})
                   ELSE Ans(200, {Profile(users, who.user["id"])})
    /\ UNCHANGED <<now, offers, wants, nextId, pc, loc, sweep, outbox, responses,
                   matchLog, overlap, users>>

\* save_profile, lines 231-242.  ProfileIn's validator (lines 135-140) refuses
\* an unknown department while the body is decoded (422), before the handler
\* runs.  With no row for the caller the UPDATE writes nothing, the SELECT
\* returns None and ProfileOut(**row) raises: 500.
SaveProfile(init, full_name, department) ==
    /\ LET who == CheckInitData(init)
           Ans(status, body) ==
               Answered("save_profile", init,
                        [full_name |-> full_name, department |-> department],
                        status, body)
       IN IF ~KnownDept(department)
          THEN reply' = Ans(422, {}) /\ UNCHANGED users
          ELSE IF who.status # 200
          THEN reply' = Ans(who.status, {}) /\ UNCHANGED users
          ELSE IF who.user["id"] \notin DOMAIN users
          THEN reply' = Ans(500, {}) /\ UNCHANGED users
          ELSE /\ users' = [users EXCEPT ![who.user["id"]] =
                                [full_name |-> full_name, department |-> department]]
               /\ reply' = Ans(200, {Profile(users', who.user["id"])})
    /\ UNCHANGED <<now, offers, wants, nextId, pc, loc, sweep, outbox, responses,
                   matchLog, overlap>>

\* _row_to_offer_out, lines 246-258
OfferOut(id) ==
    [id |-> id, department |-> offers[id].department, have |-> offers[id].have,
     wants |-> WantsOf(id), status |-> offers[id].status]

\* my_offers, lines 300-308
MyOffers(init) ==
    /\ LET who == CheckInitData(init)
           Ans(status, body) == Answered("my_offers", init, NoArg, status, body)
       IN reply' = IF who.status # 200 THEN Ans(who.status, {})
                   ELSE Ans(200, {OfferOut(id) : id \in {i \in DOMAIN offers :
                                     /\ offers[i].user_tg = who.user["id"]
                                     /\ offers[i].status \in {"active", "matched"}}})
    /\ UNCHANGED <<now, offers, wants, nextId, pc, loc, sweep, outbox, responses,
                   matchLog, overlap, users>>

\* variant of DeleteHits: the DELETE without user_tg=%s
DeleteHitsAnyOwner(tg_id, offer_id) == offer_id \in DOMAIN offers

\* line 315: the DELETE ... WHERE id=%s AND user_tg=%s finds a row (rowcount # 0)
DeleteHits(tg_id, offer_id) ==
    offer_id \in DOMAIN offers /\ offers[offer_id].user_tg = tg_id

\* delete_offer, lines 310-319, with its token check and its answers
DeleteOfferCall(init, offer_id) ==
    /\ LET who == CheckInitData(init)
           Ans(status, body) ==
               Answered("delete_offer", init, [offer_id |-> offer_id], status, body)
       IN IF who.status # 200
          THEN /\ reply' = Ans(who.status, {})
               /\ UNCHANGED <<offers, wants>>
          ELSE IF DeleteHits(who.user["id"], offer_id)
          THEN /\ offers' = Drop(offers, {offer_id})
               /\ wants' = Drop(wants, {offer_id})
               /\ reply' = Ans(200, {[ok |-> TRUE]})
          ELSE /\ reply' = Ans(404, {})
               /\ UNCHANGED <<offers, wants>>
    /\ UNCHANGED <<now, nextId, pc, loc, sweep, outbox, responses, matchLog,
                   overlap, users>>

\* as_local_now().date() and .hour
LocalDate(t) == LocalNow(t) \div 24
LocalHour(t) == LocalNow(t) % 24

\* actual_dates, lines 322-332: the handler takes no initData
ActualDates ==
    /\ reply' = Answered("actual_dates", <<>>, NoArg, 200,
                    {[date |-> offers[id].have[1]] : id \in {i \in DOMAIN offers :
                        /\ offers[i].status = "active"
                        /\ offers[i].have[1] >= LocalDate(now)}})
    /\ UNCHANGED <<now, offers, wants, nextId, pc, loc, sweep, outbox, responses,
                   matchLog, overlap, users>>

\* OfferBrief, lines 353-361 (JOIN users u ON u.tg_id = o.user_tg)
OfferBrief(id) ==
    [id |-> id, user_tg |-> offers[id].user_tg,
     full_name |-> users[offers[id].user_tg].full_name,
     department |-> offers[id].department, have |-> offers[id].have]

\* offers_by_date, lines 335-362: the handler takes no initData
OffersByDate(date) ==
    /\ reply' = Answered("offers_by_date", <<>>, [date |-> date], 200,
                    {OfferBrief(id) : id \in {i \in DOMAIN offers :
                        /\ offers[i].status = "active"
                        /\ offers[i].have[1] = date
                        /\ ~(/\ offers[i].have[1] = LocalDate(now)
                              /\ HourOf(offers[i].have[2]) <= LocalHour(now))}})
    /\ UNCHANGED <<now, offers, wants, nextId, pc, loc, sweep, outbox, responses,
                   matchLog, overlap, users>>

\* lines 72-87: DEPT_SLOTS, for the departments of Depts
DEPT_SLOTS(department) ==
    CASE department = "VIP CALLS" ->
           {<<"08:00", "17:00">>, <<"10:00", "19:00">>, <<"12:00", "21:00">>}
      [] department = "VIP LITE CHAT" ->
           {<<"13:00", "01:00">>, <<"12:00", "21:00">>, <<"07:00", "16:00">>,
            <<"09:00", "18:00">>}
      [] OTHER -> {}

\* dept_slots, lines 464-467: the handler takes no initData
DeptSlots(department) ==
    /\ LET Ans(status, body) ==
               Answered("dept_slots", <<>>, [department |-> department], status, body)
       IN reply' = IF ~KnownDept(department) THEN Ans(400, {})
                   ELSE Ans(200, {[start |-> x[1], end |-> x[2]] :
                                     x \in DEPT_SLOTS(department)})
    /\ UNCHANGED <<now, offers, wants, nextId, pc, loc, sweep, outbox, responses,
                   matchLog, overlap, users>>

\* create_offer, lines 260-298, with its token check.  The body is decoded
\* first (an unknown department ends the request there), then the token is
\* checked, then the handler goes on as CreateOffer.
PostOffers(p, init, dept, have, ws) ==
    LET who == CheckInitData(init) IN
    IF KnownDept(dept) /\ who.status # 200
    THEN /\ pc[p] = "idle"
         /\ reply' = Answered("create_offer", init,
                               [department |-> dept, have |-> have, wants |-> ws],
                               who.status, {})
         /\ UNCHANGED <<now, offers, wants, nextId, pc, loc, sweep, outbox,
                        responses, matchLog, overlap, users>>
    ELSE CreateOffer(p, IF who.status = 200 THEN who.user["id"] ELSE 0, dept, have, ws)

\* -------------------------------------------------------------------- clock
Tick ==
    /\ now < MaxNow
    /\ now' = now + 1
    /\ UNCHANGED <<offers, wants, nextId, pc, loc, sweep, outbox, responses,
                   matchLog, overlap, users, reply>>

\* --------------------------------------------------------------------- Next

\* Idle workers are interchangeable: the lowest idle one takes the request.
Takes(p) == \A q \in Procs : q < p => InFlight(q)

\* Users and departments are only ever compared for equality, so the first
\* offer is taken to come from user 1 for "VIP CALLS".
Canonical(u, dept) == nextId = 1 => (u = 1 /\ dept = "VIP CALLS")

Request(max) ==
    /\ nextId <= max
    /\ \E p \in Procs, u \in Users, dept \in Depts, have \in Slots,
          ws \in SUBSET Slots \ {{}} :
          Takes(p) /\ Canonical(u, dept) /\ CreateOffer(p, u, dept, have, ws)

Next ==
    \/ Request(MaxOffers)
    \/ \E p \in Procs : ReadA(p)
    \/ \E p \in Procs : ReadAWants(p)
    \/ \E p \in Procs : SelectCandidates(p)
    \/ \E p \in Procs : CheckCandidate(p)
    \/ \E p \in Procs : MarkMatched(p)
    \/ \E p \in Procs, posted \in 0..2 : NotifyMatch(p, posted)
    \/ \E p \in Procs : Respond(p)
    \/ \E u \in Users, id \in 1..MaxOffers : DeleteOffer(u, id)
    \/ SweepSelect
    \/ SweepUpdate
    \/ Tick

Spec == Init /\ [][Next]_vars

\* Three offers, their match attempts and deletions: no sweep, the clock
\* stands still and the gateway delivers.
NextRace ==
    \/ Request(MaxRaceOffers)
    \/ \E p \in Procs : ReadA(p)
    \/ \E p \in Procs : ReadAWants(p)
    \/ \E p \in Procs : SelectCandidates(p)
    \/ \E p \in Procs : CheckCandidate(p)
    \/ \E p \in Procs : MarkMatched(p)
    \/ \E p \in Procs : NotifyMatch(p, 2)
    \/ \E u \in Users, id \in 1..MaxRaceOffers : DeleteOffer(u, id)
    \/ \E p \in Procs : Respond(p)

SpecRace == Init /\ [][NextRace]_vars

\* the departments requests name: a key of DEPT_SLOTS and a name that is none
DeptInputs == {"VIP CALLS", "VIP DAYS"}

\* the want lists requests carry: empty, or both slots
WantInputs == {{}, Slots}

\* the full_name texts save_profile is called with
NameInputs == {"", "Ann"}

\* The endpoints as they are called over HTTP, with tokens of every kind,
\* starting with no user registered.
NextApi ==
    \/ /\ nextId <= MaxApiOffers
       /\ \E p \in Procs, init \in Tokens, dept \in DeptInputs, have \in Slots,
             ws \in WantInputs : Takes(p) /\ PostOffers(p, init, dept, have, ws)
    \/ \E p \in Procs : ReadA(p)
    \/ \E p \in Procs : ReadAWants(p)
    \/ \E p \in Procs : SelectCandidates(p)
    \/ \E p \in Procs : Respond(p)
    \/ \E init \in Tokens : AuthTelegram(init)
    \/ \E init \in Tokens : GetProfile(init)
    \/ \E init \in Tokens, full_name \in NameInputs, department \in DeptInputs :
          SaveProfile(init, full_name, department)
    \/ \E init \in Tokens : MyOffers(init)
    \/ \E init \in Tokens, offer_id \in 1..MaxApiOffers : DeleteOfferCall(init, offer_id)
    \/ ActualDates
    \/ \E date \in Dates : OffersByDate(date)
    \/ \E department \in DeptInputs : DeptSlots(department)

\* startup: init_db has created the empty tables
InitApi == Fresh /\ users = <<>>

SpecApi == InitApi /\ [][NextApi]_vars

\* The token check on every token (auth), with the endpoints that keep the
\* users table.
NextAuth ==
    \/ \E init \in InitDatas : AuthTelegram(init)
    \/ \E init \in Tokens : GetProfile(init)
    \/ \E init \in Tokens, full_name \in NameInputs, department \in DeptInputs :
          SaveProfile(init, full_name, department)

SpecAuth == InitApi /\ [][NextAuth]_vars

\* cleanup_expired is not between its SELECT and its UPDATE
Quiet == sweep.pc # "expire"

\* no create_offer request is in flight
Serial == \A q \in Procs : ~InFlight(q)

\* The sweeper with its failures, against requests that come one at a time
\* and do not run between the SELECT and the UPDATE of one sweep.
SweepSystem(max) ==
    \/ Quiet /\ Serial /\ Request(max)
    \/ Quiet /\ \E p \in Procs : ReadA(p)
    \/ Quiet /\ \E p \in Procs : ReadAWants(p)
    \/ Quiet /\ \E p \in Procs : SelectCandidates(p)
    \/ Quiet /\ \E p \in Procs : CheckCandidate(p)
    \/ Quiet /\ \E p \in Procs : MarkMatched(p)
    \/ Quiet /\ \E p \in Procs : NotifyMatch(p, 2)
    \/ Quiet /\ \E p \in Procs : Respond(p)
    \/ Quiet /\ \E u \in Users, id \in 1..max : DeleteOffer(u, id)
    \/ Quiet /\ Tick
    \/ SweepSelect
    \/ SweepUpdate
    \/ SweepFail

NextSweep == SweepSystem(MaxSweepOffers)

SpecSweep == Init /\ [][NextSweep]_vars

NextLive == SweepSystem(MaxLiveOffers)

\* _schedule_cleanup, lines 454-459: while True, the loop runs cleanup_expired
\* again after every sleep, so a sweep that can run does run
SweepFairness == WF_vars(SweepSelect) /\ WF_vars(SweepUpdate)

SpecSweepLive == Init /\ [][NextLive]_vars /\ SweepFairness

\* ================================================================== claims

Done(id) == \A p \in Procs : loc[p].offer_id # id
Pair(e) == {e.A.id, e.B.id}

\* C1: no offer is claimed as a match partner by two match attempts: no two
\* different trigger offers A1 and A2 are both set to matched against the same
\* partner offer B.
C1_NoDoubleClaim ==
    \A e1 \in matchLog, e2 \in matchLog :
        (e1.B.id = e2.B.id /\ e1.aWas # "gone" /\ e2.aWas # "gone" /\ e1.bWas # "gone")
            => e1.A.id = e2.A.id

\* C2: an offer's status changes only when its current status is active: no
\* offer goes from matched to expired or from expired to matched.
C2_StatusChangesOnlyFromActive ==
    [][\A id \in DOMAIN offers \cap DOMAIN offers' :
          offers'[id].status # offers[id].status => offers[id].status = "active"]_vars

\* C3: an offer that was deleted while a match attempt held it as a candidate is
\* not matched: whenever a trigger is set to matched, its chosen partner is
\* still a row of offers at that commit.
C3_PartnerExistsAtCommit ==
    \A e \in matchLog : e.aWas # "gone" => e.bWas # "gone"

Compatible(a, b) ==
    /\ a # b
    /\ offers[a].user_tg # offers[b].user_tg
    /\ offers[a].department = offers[b].department
    /\ offers[b].have \in wants[a]
    /\ offers[a].have \in wants[b]

\* some committed match paired a or b with an offer outside {a, b}
TakenByThird(a, b) == \E e \in matchLog : Pair(e) \cap {a, b} # {} /\ Pair(e) # {a, b}

Settled(a, b) ==
    /\ Done(a) /\ Done(b)
    /\ offers[a].status # "expired" /\ offers[b].status # "expired"

\* C4 as stated: two mutually compatible offers of different users in one
\* department, neither deleted nor expired, are both matched once both
\* create_offer requests have completed.
C4_MutualPairMatched ==
    \A a \in DOMAIN offers, b \in DOMAIN offers :
        (Compatible(a, b) /\ Settled(a, b))
            => (offers[a].status = "matched" /\ offers[b].status = "matched")

\* C4 amended: the same, for pairs neither of which was matched with a third offer.
C4_MutualPairMatchedUnlessTaken ==
    \A a \in DOMAIN offers, b \in DOMAIN offers :
        (Compatible(a, b) /\ Settled(a, b) /\ ~TakenByThird(a, b))
            => (offers[a].status = "matched" /\ offers[b].status = "matched")

\* C4 witness: a compatible pair, matched with each other by overlapping
\* requests that have both completed
C4_Witness ==
    \E a \in DOMAIN offers, b \in DOMAIN offers :
        /\ Compatible(a, b) /\ Settled(a, b) /\ ~TakenByThird(a, b)
        /\ offers[a].status = "matched" /\ offers[b].status = "matched"
        /\ \E e \in matchLog : Pair(e) = {a, b}
        /\ overlap

\* the rows and want sets a match attempt worked on are the stored ones
AsStored(row, ws) ==
    row.id \in DOMAIN offers => (Row(row.id) = row /\ wants[row.id] = ws)

\* C5: whenever a pair (A, B) is set to matched, A and B are in the same
\* department, B's have-slot is in A's want set and A's have-slot is in B's
\* want set.
C5_OnlyMutualSameDepartment ==
    \A e \in matchLog :
        /\ e.A.department = e.B.department
        /\ e.B.have \in e.A_wants
        /\ e.A.have \in e.B_wants
        /\ AsStored(e.A, e.A_wants)
        /\ AsStored(e.B, e.B_wants)

\* C5 witness: a committed match of two stored offers, one of which wants both slots
C5_Witness ==
    \E e \in matchLog :
        /\ Pair(e) \subseteq DOMAIN offers
        /\ e.aWas = "active" /\ e.bWas = "active"
        /\ Cardinality(e.A_wants) = 2

\* C6: no offer is matched with itself, and no two offers of the same user are
\* matched with each other.
C6_NoSelfNoSameUser ==
    \A e \in matchLog : e.A.id # e.B.id /\ e.A.user_tg # e.B.user_tg

\* C6 witness: two mutually compatible offers of one user, one of them wanting
\* its own have-slot, both requests completed, both still active
C6_Witness ==
    \E a \in DOMAIN offers, b \in DOMAIN offers :
        /\ a # b
        /\ offers[a].user_tg = offers[b].user_tg
        /\ offers[a].department = offers[b].department
        /\ offers[b].have \in wants[a] /\ offers[a].have \in wants[b]
        /\ offers[a].have \in wants[a]
        /\ Done(a) /\ Done(b)
        /\ offers[a].status = "active" /\ offers[b].status = "active"

\* C7: an offer that was matched before a match attempt began is neither the
\* trigger A nor a candidate B of that attempt; and when no two create_offer
\* requests overlap, no offer is in two committed matches.
C7_MatchedIsExcluded ==
    /\ \A p \in Procs :
          /\ loc[p].A # NoRow => loc[p].A.id \notin loc[p].seen
          /\ \A b \in loc[p].Bs : b.id \notin loc[p].seen
          /\ loc[p].B # NoRow => loc[p].B.id \notin loc[p].seen
    /\ ~overlap => \A e1 \in matchLog, e2 \in matchLog :
                      e1 # e2 => Pair(e1) \cap Pair(e2) = {}

\* C7 witness: with no requests overlapping, a match attempt has run its
\* candidate query while a matched offer was mutually compatible with its A
C7_Witness ==
    /\ ~overlap
    /\ \E p \in Procs :
          /\ pc[p] = "respond"
          /\ loc[p].A # NoRow
          /\ loc[p].B = NoRow
          /\ \E m \in loc[p].seen \cap DOMAIN offers :
                /\ offers[m].status = "matched"
                /\ offers[m].department = loc[p].A.department
                /\ offers[m].user_tg # loc[p].A.user_tg
                /\ offers[m].have \in loc[p].A_wants
                /\ loc[p].A.have \in wants[m]

Notifying(e) == \E p \in Procs : pc[p] = "notify" /\ {loc[p].A.id, loc[p].B.id} = Pair(e)

\* C8: for every pair that is matched, once the notifying is over each owner
\* has been sent exactly one notification (own have-slot given, the
\* counterpart's received), and exactly one match attempt flipped the pair.
C8_OneNotificationOneTrigger ==
    \A e \in matchLog :
        /\ \A e2 \in matchLog : Pair(e2) = Pair(e) => e2 = e
        /\ ~Notifying(e) => /\ Count(outbox, Message(e.A, e.B)) = 1
                            /\ Count(outbox, Message(e.B, e.A)) = 1

\* C9: a gateway failure in notify_match changes no offer, is not followed by
\* another match by the same attempt, and the request still returns the
\* stored offer successfully.
C9_NotifyFailureContained ==
    [][\A p \in Procs :
          /\ (pc[p] = "notify" /\ pc'[p] # "notify"
                /\ BagCardinality(outbox') < BagCardinality(outbox) + 2)
             => (offers' = offers /\ wants' = wants /\ matchLog' = matchLog
                   /\ pc'[p] = "respond")
          /\ loc[p].failed => pc[p] = "respond"
          /\ (pc[p] = "respond" /\ pc'[p] = "idle" /\ loc[p].failed
                /\ loc[p].offer_id \in DOMAIN offers)
             => (responses' = Answer("ok", TRUE) /\ offers' = offers)]_vars

\* C9 witness: a request whose notification failed was answered ok, and the
\* pair it matched is still matched
C9_Witness ==
    /\ Count(responses, [code |-> "ok", failed |-> TRUE]) > 0
    /\ \E e \in matchLog :
          /\ Pair(e) \subseteq DOMAIN offers
          /\ \A id \in Pair(e) : offers[id].status = "matched"

\* the slot, read as a wall-clock instant at UTC+3, is strictly later than t
LaterThan(s, t) == SlotInstant(s) > t + TZ_OFFSET

\* C10: create_offer accepts only when the have-slot and every want-slot are
\* strictly later than now; a request that passes the profile and department
\* checks and has a slot at or before now is rejected with SlotInPast; a
\* rejected request stores nothing.
C10_FutureOnly ==
    /\ [](\A u \in Users, dept \in Depts, have \in Slots, ws \in SUBSET Slots :
            LET out == CreateOutcome(u, dept, have, ws, now) IN
            /\ out = "ok" => \A s \in {have} \cup ws : LaterThan(s, now)
            /\ (~LaterThan(have, now) \/ (ws # {} /\ \E w \in ws : ~LaterThan(w, now)))
                  => out = "SlotInPast")
    /\ [][/\ \A id \in DOMAIN offers' \ DOMAIN offers :
                /\ LaterThan(offers'[id].have, now)
                /\ \A w \in wants'[id] : LaterThan(w, now)
          /\ Rejected' > Rejected => UNCHANGED <<offers, wants, nextId, pc, loc>>]_vars

\* C10 witness: offers are stored, the clock stands exactly on a slot and a
\* request has been rejected with SlotInPast
C10_Witness ==
    /\ DOMAIN offers # {}
    /\ \E s \in Slots : SlotInstant(s) = now + TZ_OFFSET
    /\ \A s \in Slots : SlotInstant(s) >= now + TZ_OFFSET
    /\ Count(responses, [code |-> "SlotInPast", failed |-> FALSE]) > 0

\* a step in which one sweep, its SELECT not separated from its UPDATE by any
\* other operation, commits
RunCommits == sweep.pc = "expire" /\ sweep'.pc = "sleep" /\ sweep'.fails = sweep.fails

\* C11: after one sweep has run, a second sweep at the same clock reading with
\* no operation in between is a no-op: its SELECT collects no offer, so it
\* writes nothing and the expired set and every status stay as they are.
C11_SecondSweepNoOp ==
    [][RunCommits => (now' = now /\ (ToExpire(now))' = {})]_vars

\* C11 witness: a sweep has just run and expired an offer next to one that an
\* earlier sweep had expired; nothing is left to expire
C11_Witness ==
    /\ sweep.pc = "sleep"
    /\ sweep.at = now
    /\ sweep.took # {}
    /\ \E e \in DOMAIN offers \ sweep.took : offers[e].status = "expired"
    /\ ToExpire(now) = {}

\* an active offer whose have-slot has passed
Due(id) == id \in ToExpire(now)

\* C12: a sweep that raises does not stop the recurring task: with the loop
\* running on and no more than MaxFails sweeps raising, every offer that is
\* active after its have-slot has passed is eventually expired, unless it is
\* matched or deleted first.
C12_SweeperRetries ==
    \A id \in 1..MaxLiveOffers : Due(id) ~> (StatusOf(id) # "active")

\* C12 witness: an offer that was due at a sweep that raised has been expired
C12_Witness ==
    /\ sweep.fails > 0
    /\ \E id \in sweep.missed \cap DOMAIN offers :
          offers[id].status = "expired" /\ id \in sweep.took

\* the request that was answered last carried a token that verifies
Verified == CheckInitData(reply.init).status = 200

\* C13: every endpoint other than the static slot listing answers a request
\* that carries no token, or a token that fails verification, as unauthorized
\* and with no offer or user data.
C13_TokenRequired ==
    (reply.endpoint \notin {"none", "dept_slots"} /\ ~Verified)
        => (reply.status = 401 /\ reply.body = {})

\* the token has a pair with key k; the value of that pair
Has(q, k) == \E i \in DOMAIN q : q[i][1] = k
Val(q, k) == q[CHOOSE i \in DOMAIN q : q[i][1] = k][2]

\* the pairs of the token other than hash, listed in ascending key order
CanonicalString(q) ==
    LET rest == {q[i] : i \in {j \in DOMAIN q : q[j][1] # "hash"}}
    IN CHOOSE seq \in [1..Cardinality(rest) -> rest] :
          \A i \in DOMAIN seq, j \in DOMAIN seq :
              i < j => KeyRank(seq[i][1]) < KeyRank(seq[j][1])

\* C14: a token without a hash fails with AuthMissingSignature (401, missing
\* hash); a token whose hash is not the MAC, under the server's key, of its
\* remaining pairs in sorted key order fails with AuthInvalidSignature (401,
\* bad hash) whatever its user field holds; a token whose hash is that MAC
\* and whose user field decodes is accepted and yields the decoded record.
C14_TokenVerification ==
    reply.endpoint = "auth" =>
        LET q == reply.init
            out == CheckInitData(q)
        IN /\ reply.status = out.status
           /\ ~Has(q, "hash") => out = Unauthorized("missing hash")
           /\ (Has(q, "hash") /\ Val(q, "hash") # Mac(SECRET_KEY, CanonicalString(q)))
                 => out = Unauthorized("bad hash")
           /\ (/\ Has(q, "hash")
               /\ Val(q, "hash") = Mac(SECRET_KEY, CanonicalString(q))
               /\ Has(q, "user")
               /\ JsonLoads(Val(q, "user")).ok)
                 => /\ out.status = 200
                    /\ out.user = JsonLoads(Val(q, "user")).value
                    /\ \E row \in reply.body : row.tg_id = out.user["id"]

\* C14 witness: auth has accepted a token whose pairs are not in key order
C14_Witness ==
    /\ reply.endpoint = "auth"
    /\ reply.status = 200
    /\ Len(reply.init) = 3
    /\ reply.init[1][1] = "user"
    /\ \E row \in reply.body : row.tg_id \in DOMAIN users

\* a step in which delete_offer answers
Deletes == reply'.endpoint = "delete_offer" /\ reply' # reply /\ Verified'

\* C15: delete_offer by user U on id i removes offer i and its want items
\* when offer i exists and belongs to U, and only then; otherwise (no such
\* offer, deleted already, or another user's) it answers 404 and no offer and
\* no want item changes.
C15_DeleteOwnedOnly ==
    [][/\ Deletes =>
            LET U == CheckInitData(reply'.init).user["id"]
                i == reply'.arg.offer_id
            IN IF i \in DOMAIN offers /\ offers[i].user_tg = U
               THEN /\ reply'.status = 200
                    /\ DOMAIN offers' = DOMAIN offers \ {i}
                    /\ DOMAIN wants' = DOMAIN wants \ {i}
                    /\ \A k \in DOMAIN offers' : offers'[k] = offers[k] /\ wants'[k] = wants[k]
               ELSE /\ reply'.status = 404
                    /\ offers' = offers
                    /\ wants' = wants
       /\ DOMAIN offers \ DOMAIN offers' # {}
            => (reply'.endpoint = "delete_offer" /\ reply'.status = 200)]_vars

\* C15 witness: an offer was deleted, and the last delete_offer of its owner
\* for that id was answered 404
C15_Witness ==
    /\ reply.endpoint = "delete_offer"
    /\ reply.status = 404
    /\ Verified
    /\ reply.arg.offer_id < nextId
    /\ reply.arg.offer_id \notin DOMAIN offers
    /\ Count(responses, [code |-> "ok", failed |-> FALSE]) > 0

\* the caller's row in users has a department and a display name
HasProfile(u) ==
    /\ u \in DOMAIN users
    /\ users[u].department \notin {NULL, ""}
    /\ users[u].full_name \notin {NULL, ""}

\* the callers a token can verify as, and 0 for a request refused before
\* its token was looked at
Callers == Users \cup {0}

Flipped == {id \in DOMAIN offers \cap DOMAIN offers' :
               offers'[id].status # offers[id].status}

\* C17: the write of a match attempt changes the status of exactly two offers,
\* its trigger A and the candidate B it chose, both to matched in the one
\* step; every other step of an attempt changes no status, and no other
\* offer's status changes.
C17_MatchFlipsNoneOrTwo ==
    [][\A p \in Procs :
          /\ (pc[p] = "update" /\ pc'[p] = "notify")
                => /\ Flipped = {loc[p].A.id, loc[p].B.id}
                   /\ Cardinality(Flipped) = 2
                   /\ \A id \in Flipped : offers'[id].status = "matched"
          /\ (pc'[p] # pc[p] /\ pc[p] \in {"readA", "readWants", "candidates", "loop",
                                            "notify", "respond"})
                => Flipped = {}]_vars

\* C18: one sweep with no operation interleaved sets to expired exactly the
\* active offers whose have-slot (as a UTC+3 wall-clock instant) is at or
\* before now, leaves every other offer and all want items unchanged, and
\* sends no notification.
C18_SweepExpiresExactlyDue ==
    [][RunCommits =>
         /\ DOMAIN offers' = DOMAIN offers
         /\ \A id \in DOMAIN offers :
               offers'[id] = IF offers[id].status = "active"
                                   /\ ~LaterThan(offers[id].have, now)
                              THEN [offers[id] EXCEPT !.status = "expired"]
                              ELSE offers[id]
         /\ wants' = wants
         /\ outbox' = outbox]_vars

\* C18 witness: the last sweep expired an offer whose slot is exactly now and
\* left a matched offer whose slot has passed as it was
C18_Witness ==
    /\ sweep.at = now
    /\ \E id \in sweep.took \cap DOMAIN offers :
          offers[id].status = "expired" /\ SlotInstant(offers[id].have) = now + TZ_OFFSET
    /\ \E m \in DOMAIN offers \ sweep.took :
          offers[m].status = "matched" /\ ~LaterThan(offers[m].have, now)

\* C19: validate_future and cleanup_expired draw the same boundary: at every
\* clock reading a slot is accepted exactly when a sweep at that reading would
\* not expire an active offer with that have-slot; so an offer accepted at t
\* is not among the offers a sweep at t selects.
C19_SameBoundary ==
    /\ [](\A s \in Slots : IsFuture(s, now) <=> ~IsExpired(s, now))
    /\ [][\A id \in DOMAIN offers' \ DOMAIN offers : id \notin (ToExpire(now))']_vars

\* C19 witness: the clock stands exactly on a slot; a sweep at this reading
\* has expired an offer with that slot, and an offer with a slot that is
\* still accepted is active
C19_Witness ==
    /\ sweep.at = now
    /\ \E id \in sweep.took \cap DOMAIN offers :
          SlotInstant(offers[id].have) = now + TZ_OFFSET
    /\ \E a \in DOMAIN offers :
          offers[a].status = "active" /\ IsFuture(offers[a].have, now)

====
